---- MODULE Spec2Model ----
(***************************************************************************)
(* A model of the mmap crate: the flag algebra of src/flag.rs, the         *)
(* protection algebra, the two mapping constructors and the two handle     *)
(* types of src/lib.rs, together with the part of the Linux kernel the     *)
(* crate talks to (mmap(2), fstat(2), the page contents of a mapping).     *)
(***************************************************************************)
EXTENDS Integers, Sequences, FiniteSets, TLC

VARIABLES
    file,      \* the bytes of the one file the caller holds open
    fileFd,    \* its descriptor (File::as_raw_fd)
    regions,   \* the kernel's table of this process's mapped regions, by base address
    handles,   \* every Mmap / MmapMut value ever built, by identity; live = in scope
    pc,        \* "idle", "mapping" (inside mmap_file, between metadata() and mmap())
               \* or "returned" (a constructor's result is being handed to the caller)
    inv,       \* the constructor invocation in flight, or else the last one finished
    born,      \* per handle: what was asked for and what the kernel said when it was built
    written,   \* per anonymous handle: the pattern last stored through deref_mut, or NoWrite
    composed   \* a flag value built from the named constants by the | operator

vars == <<file, fileFd, regions, handles, pc, inv, born, written, composed>>

memVars == <<file, fileFd, regions, handles, pc, inv, born, written>>

----------------------------------------------------------------------------
(* Bounds of the model *)

\* number of regions the address space has room for
MaxRegions == 2
\* largest length passed to new_anon / new_anon_exec
MaxLen == 1
\* largest size the file grows to
MaxFileSize == 1

\* two byte values stand for the 256
Byte == {0, 1}

Addrs == 1..MaxRegions

----------------------------------------------------------------------------
(* Bit arithmetic on non-negative i32 values *)

RECURSIVE BitOr(_, _)
BitOr(a, b) ==
    IF a = 0 THEN b
    ELSE IF b = 0 THEN a
    ELSE (IF a % 2 = 1 \/ b % 2 = 1 THEN 1 ELSE 0) + 2 * BitOr(a \div 2, b \div 2)

RECURSIVE BitAnd(_, _)
BitAnd(a, b) ==
    IF a = 0 \/ b = 0 THEN 0
    ELSE (IF a % 2 = 1 /\ b % 2 = 1 THEN 1 ELSE 0) + 2 * BitAnd(a \div 2, b \div 2)

----------------------------------------------------------------------------
(* libc constants (Linux, x86_64) named by src/flag.rs and src/lib.rs *)

\* the sharing-mode bits of a flag word (the kernel's MAP_TYPE mask, 0x0f)
SharingMode(flags) == flags % 16

MAP_SHARED == 1
MAP_PRIVATE == 2
MAP_SHARED_VALIDATE == 3

MAP_FIXED == 16
MAP_ANONYMOUS == 32
MAP_32BIT == 64
MAP_GROWSDOWN == 256
MAP_LOCKED == 8192
MAP_NORESERVE == 16384
MAP_POPULATE == 32768
MAP_NONBLOCK == 65536
MAP_STACK == 131072
MAP_HUGETLB == 262144
MAP_SYNC == 524288
MAP_FIXED_NOREPLACE == 1048576
MAP_HUGE_2MB == 1409286144
MAP_HUGE_1GB == 2013265920

PROT_NONE == 0
PROT_READ == 1
PROT_WRITE == 2
PROT_EXEC == 4

MAP_FAILED == -1
NULL == 0

EIO == 5
EBADF == 9
ENOMEM == 12
EINVAL == 22

----------------------------------------------------------------------------
(* Flag algebra: src/flag.rs *)

\* ghost field uniq: the unique-group constants that went into the value
UniqueFlag(c) == [ty |-> "UniqueFlag", bits |-> c, uniq |-> {c}]

Flag(c) == [ty |-> "Flag", bits |-> c, uniq |-> {}]

UniqueConsts == {MAP_SHARED, MAP_SHARED_VALIDATE, MAP_PRIVATE}

FlagConsts ==
    {MAP_32BIT, MAP_ANONYMOUS, MAP_FIXED, MAP_FIXED_NOREPLACE, MAP_GROWSDOWN,
     MAP_HUGETLB, MAP_HUGE_2MB, MAP_HUGE_1GB, MAP_LOCKED, MAP_NONBLOCK,
     MAP_NORESERVE, MAP_POPULATE, MAP_STACK, MAP_SYNC}

NamedConsts == {UniqueFlag(c) : c \in UniqueConsts} \cup {Flag(c) : c \in FlagConsts}

NoImpl == "none"

\* a plausible slip: one more impl, BitOr<UniqueFlag> for UniqueFlag
BitOrOutput_WithUniqueUnique(lty, rty) ==
    IF lty = "Flag" /\ rty = "Flag" THEN "Flag" ELSE "UniqueFlag"

\* the impls of BitOr: the output type for a pair of operand types
BitOrOutput(lty, rty) ==
    IF lty = "Flag" /\ rty = "Flag" THEN "Flag"
    ELSE IF lty = "Flag" /\ rty = "UniqueFlag" THEN "UniqueFlag"
    ELSE IF lty = "UniqueFlag" /\ rty = "Flag" THEN "UniqueFlag"
    ELSE NoImpl

\* l | r, for operands whose types have an impl
FlagBitOr(l, r) ==
    [ty |-> BitOrOutput(l.ty, r.ty), bits |-> BitOr(l.bits, r.bits),
     uniq |-> l.uniq \cup r.uniq]

----------------------------------------------------------------------------
(* Protection algebra: src/lib.rs *)

ProtBitOr(a, b) == BitOr(a, b)

\* a plausible slip: the read-write handle asks for read and write
BaseProt_ReadWrite(ty) ==
    IF ty = "Mmap" THEN PROT_READ ELSE BitOr(PROT_READ, PROT_WRITE)

\* mmap_impl!(Mmap, READ, ..) and mmap_impl!(MmapMut, WRITE, ..)
BaseProt(ty) == IF ty = "Mmap" THEN PROT_READ ELSE PROT_WRITE

HandleTypes == {"Mmap", "MmapMut"}

Fds == {3}

----------------------------------------------------------------------------
(* The kernel side: mmap(2), fstat(2) and the contents of mapped pages.    *)
(* Every length of the model is below the page size, so a file-backed      *)
(* region is one page: bytes past end-of-file read as 0 while the file has *)
(* a first page, and touching the page of an empty file raises SIGBUS.     *)
(* On x86_64 a page mapped with any access right can be loaded from, and   *)
(* stores need PROT_WRITE; the kernel picks the lowest free address.       *)

\* what a load that raises SIGSEGV or SIGBUS yields: no byte
Fault == 0 - 1

Zeros(n) == [i \in 1..n |-> 0]

FileByte(i) == IF i <= Len(file) THEN file[i] ELSE 0

\* the region a successful request creates
NewRegion(req) ==
    LET anon == BitAnd(req.flags, MAP_ANONYMOUS) # 0
        shared == SharingMode(req.flags) \in {MAP_SHARED, MAP_SHARED_VALIDATE}
    IN  [len |-> req.len, anon |-> anon, shared |-> shared,
         r |-> req.prot # PROT_NONE, w |-> BitAnd(req.prot, PROT_WRITE) # 0,
         bytes |-> IF anon THEN Zeros(req.len)
                   ELSE IF shared THEN <<>>
                   ELSE [i \in 1..req.len |-> FileByte(i)]]

\* what mmap(2) may answer to a request: a fresh address, or MAP_FAILED and errno
OsMmap(req) ==
    IF req.len = 0 THEN {[ret |-> MAP_FAILED, errno |-> EINVAL]}
    ELSE IF SharingMode(req.flags) \notin UniqueConsts
        THEN {[ret |-> MAP_FAILED, errno |-> EINVAL]}
    ELSE IF BitAnd(req.flags, MAP_ANONYMOUS) = 0 /\ req.fd # fileFd
        THEN {[ret |-> MAP_FAILED, errno |-> EBADF]}
    ELSE {[ret |-> MAP_FAILED, errno |-> ENOMEM]}
         \cup {[ret |-> a, errno |-> 0] :
                  a \in {x \in Addrs \ DOMAIN regions :
                            \A y \in Addrs \ DOMAIN regions : x <= y}}

\* the region table after the kernel answered out to req
OsMapped(req, out) ==
    IF out.ret = MAP_FAILED THEN regions
    ELSE regions @@ (out.ret :> NewRegion(req))

\* what fstat(2) may answer: the size, or an error
OsFstat == {[ok |-> TRUE, size |-> Len(file), errno |-> 0],
            [ok |-> FALSE, size |-> 0, errno |-> EIO]}

\* load of byte i (from 1) of the region at base address a
PeekByte(a, i) ==
    IF a \notin DOMAIN regions THEN Fault
    ELSE LET r == regions[a]
         IN  IF i > r.len \/ ~r.r THEN Fault
             ELSE IF r.anon \/ ~r.shared THEN r.bytes[i]
             ELSE IF Len(file) = 0 THEN Fault
             ELSE FileByte(i)

\* whether a store of n bytes at base address a completes and reaches the backing
CanPoke(a, n) ==
    /\ a \in DOMAIN regions
    /\ n <= regions[a].len
    /\ regions[a].w
    /\ (regions[a].anon \/ ~regions[a].shared \/ n <= Len(file))

\* the region table after bytes P are stored at base address a
PokeRegions(a, P) ==
    IF regions[a].anon \/ ~regions[a].shared
    THEN [regions EXCEPT ![a].bytes =
             [i \in 1..regions[a].len |-> IF i <= Len(P) THEN P[i] ELSE @[i]]]
    ELSE regions

\* the file after bytes P are stored at base address a
PokeFile(a, P) ==
    IF regions[a].anon \/ ~regions[a].shared THEN file
    ELSE [i \in 1..Len(file) |-> IF i <= Len(P) THEN P[i] ELSE file[i]]

----------------------------------------------------------------------------
(* The mapping constructors and handles: src/lib.rs *)

\* the arguments mmap_anon passes to libc::mmap
mmap_anon_request(size, prot) ==
    [addr |-> NULL, len |-> size, prot |-> prot,
     flags |-> FlagBitOr(UniqueFlag(MAP_SHARED), Flag(MAP_ANONYMOUS)).bits,
     fd |-> -1, off |-> 0]

\* a plausible slip: a zero size is rounded up for the call, and only there
mmap_file_request_AtLeastOne(fd, size, prot) ==
    [addr |-> NULL, len |-> IF size = 0 THEN 1 ELSE size, prot |-> prot,
     flags |-> UniqueFlag(MAP_SHARED).bits,
     fd |-> fd, off |-> 0]

\* the arguments mmap_file passes to libc::mmap
mmap_file_request(fd, size, prot) ==
    [addr |-> NULL, len |-> size, prot |-> prot,
     flags |-> UniqueFlag(MAP_SHARED).bits,
     fd |-> fd, off |-> 0]

\* a plausible slip: the failure test is for a null pointer
mmap_anon_result_NullCheck(out) ==
    IF out.ret = NULL
    THEN [ok |-> FALSE, err |-> out.errno, ptr |-> NULL]
    ELSE [ok |-> TRUE, err |-> 0, ptr |-> out.ret]

\* mmap_anon's result for the kernel's answer: Err(last_os_error()) or Ok(ptr)
mmap_anon_result(out) ==
    IF out.ret = MAP_FAILED
    THEN [ok |-> FALSE, err |-> out.errno, ptr |-> NULL]
    ELSE [ok |-> TRUE, err |-> 0, ptr |-> out.ret]

\* a plausible slip: the length returned is the file's size after the call
mmap_file_result_SizeAfter(out, size) ==
    IF out.ret = MAP_FAILED
    THEN [ok |-> FALSE, err |-> out.errno, ptr |-> NULL, len |-> 0]
    ELSE [ok |-> TRUE, err |-> 0, ptr |-> out.ret, len |-> Len(file)]

\* mmap_file's result for the kernel's answer: Err(last_os_error()) or Ok((ptr, size))
mmap_file_result(out, size) ==
    IF out.ret = MAP_FAILED
    THEN [ok |-> FALSE, err |-> out.errno, ptr |-> NULL, len |-> 0]
    ELSE [ok |-> TRUE, err |-> 0, ptr |-> out.ret, len |-> size]

\* a plausible slip: the length recorded is one more than the length mapped
AnonHandle_LenPlusOne(ty, ptr, size) ==
    [ty |-> ty, ptr |-> ptr, len |-> size + 1, live |-> TRUE]

\* Self { ptr, len, _lifetime } of new_anon / new_anon_exec: len is size.get()
AnonHandle(ty, ptr, size) == [ty |-> ty, ptr |-> ptr, len |-> size, live |-> TRUE]

\* Self { ptr, len, _lifetime } of new_file / new_file_exec
FileHandle(ty, ptr, len) == [ty |-> ty, ptr |-> ptr, len |-> len, live |-> TRUE]

Live == {h \in DOMAIN handles : handles[h].live}

\* Deref::deref: slice::from_raw_parts(self.ptr, self.len), read in full
deref(h) == [i \in 1..handles[h].len |-> PeekByte(handles[h].ptr, i)]

NoWrite == <<>>

NoReq == [addr |-> NULL, len |-> 0, prot |-> 0, flags |-> 0, fd |-> 0, off |-> 0]

\* no invocation in flight or being handed over
NoInv ==
    [entry |-> "none", ty |-> "none", prot |-> 0, size |-> 0, sizeAtQuery |-> 0,
     sizeAtMap |-> 0, metaFailed |-> FALSE, ncalls |-> 0, req |-> NoReq,
     ret |-> NULL, oserr |-> 0, outcome |-> "none", err |-> 0, h |-> 0,
     handlesBefore |-> 0]

NextHandle == Cardinality(DOMAIN handles) + 1

\* the anonymous entry points: one mmap_anon call, then the handle or the error
AnonCtor(entry, ty, size, prot) ==
    /\ pc = "idle"
    /\ LET req == mmap_anon_request(size, prot)
       IN  \E out \in OsMmap(req) :
             LET res == mmap_anon_result(out)
                 h == NextHandle
                 started == [NoInv EXCEPT !.entry = entry, !.ty = ty, !.prot = prot,
                                !.size = size, !.ncalls = 1, !.req = req,
                                !.ret = out.ret, !.oserr = out.errno,
                                !.handlesBefore = Cardinality(DOMAIN handles)]
             IN  /\ regions' = OsMapped(req, out)
                 /\ IF res.ok
                    THEN /\ handles' = handles @@ (h :> AnonHandle(ty, res.ptr, size))
                         /\ born' = born @@ (h :> [anon |-> TRUE, n |-> size,
                                                   ret |-> out.ret])
                         /\ written' = written @@ (h :> NoWrite)
                         /\ inv' = [started EXCEPT !.outcome = "ok", !.h = h]
                    ELSE /\ inv' = [started EXCEPT !.outcome = "err", !.err = res.err]
                         /\ UNCHANGED <<handles, born, written>>
    /\ pc' = "returned"
    /\ UNCHANGED <<file, fileFd, composed>>

new_anon(ty, size) == AnonCtor("new_anon", ty, size, BaseProt(ty))

new_anon_exec(ty, size) ==
    AnonCtor("new_anon_exec", ty, size, ProtBitOr(BaseProt(ty), PROT_EXEC))

\* the file-backed entry points up to `file.metadata()?`: as_raw_fd, then the
\* metadata query, whose failure returns the error at once. `size() as usize`
\* keeps the value: usize is as wide as u64 on the 64-bit targets modelled.
FileCtor(entry, ty, prot) ==
    /\ pc = "idle"
    /\ \E st \in OsFstat :
         LET started == [NoInv EXCEPT !.entry = entry, !.ty = ty, !.prot = prot,
                            !.handlesBefore = Cardinality(DOMAIN handles)]
         IN  IF st.ok
             THEN /\ inv' = [started EXCEPT !.sizeAtQuery = st.size,
                                !.size = st.size, !.outcome = "pending"]
                  /\ pc' = "mapping"
             ELSE /\ inv' = [started EXCEPT !.metaFailed = TRUE, !.oserr = st.errno,
                                !.outcome = "err", !.err = st.errno]
                  /\ pc' = "returned"
    /\ UNCHANGED <<file, fileFd, regions, handles, born, written, composed>>

new_file(ty) == FileCtor("new_file", ty, BaseProt(ty))

new_file_exec(ty) == FileCtor("new_file_exec", ty, ProtBitOr(BaseProt(ty), PROT_EXEC))

\* a plausible slip: a failed mmap call is tried once more
mmap_file_Retry ==
    /\ pc = "mapping"
    /\ LET req == mmap_file_request(fileFd, inv.size, inv.prot)
       IN  \E out1 \in OsMmap(req), out2 \in OsMmap(req) :
             LET again == out1.ret = MAP_FAILED
                 out == IF again THEN out2 ELSE out1
                 res == mmap_file_result(out, inv.size)
                 h == NextHandle
                 called == [inv EXCEPT !.ncalls = @ + (IF again THEN 2 ELSE 1),
                               !.req = req, !.ret = out.ret,
                               !.oserr = out.errno, !.sizeAtMap = Len(file)]
             IN  /\ regions' = OsMapped(req, out)
                 /\ IF res.ok
                    THEN /\ handles' = handles @@ (h :> FileHandle(inv.ty, res.ptr, res.len))
                         /\ born' = born @@ (h :> [anon |-> FALSE, n |-> inv.size,
                                                   ret |-> out.ret])
                         /\ written' = written @@ (h :> NoWrite)
                         /\ inv' = [called EXCEPT !.outcome = "ok", !.h = h]
                    ELSE /\ inv' = [called EXCEPT !.outcome = "err", !.err = res.err]
                         /\ UNCHANGED <<handles, born, written>>
    /\ pc' = "returned"
    /\ UNCHANGED <<file, fileFd, composed>>

\* the rest of mmap_file and of its entry point: the mmap call with the size
\* read before, then the handle or the error
mmap_file ==
    /\ pc = "mapping"
    /\ LET req == mmap_file_request(fileFd, inv.size, inv.prot)
       IN  \E out \in OsMmap(req) :
             LET res == mmap_file_result(out, inv.size)
                 h == NextHandle
                 called == [inv EXCEPT !.ncalls = @ + 1, !.req = req, !.ret = out.ret,
                               !.oserr = out.errno, !.sizeAtMap = Len(file)]
             IN  /\ regions' = OsMapped(req, out)
                 /\ IF res.ok
                    THEN /\ handles' = handles @@ (h :> FileHandle(inv.ty, res.ptr, res.len))
                         /\ born' = born @@ (h :> [anon |-> FALSE, n |-> inv.size,
                                                   ret |-> out.ret])
                         /\ written' = written @@ (h :> NoWrite)
                         /\ inv' = [called EXCEPT !.outcome = "ok", !.h = h]
                    ELSE /\ inv' = [called EXCEPT !.outcome = "err", !.err = res.err]
                         /\ UNCHANGED <<handles, born, written>>
    /\ pc' = "returned"
    /\ UNCHANGED <<file, fileFd, composed>>

\* the caller takes the Result (`let map = ...`); the invocation is over
bind_result ==
    /\ pc = "returned"
    /\ pc' = "idle"
    /\ inv' = NoInv
    /\ UNCHANGED <<file, fileFd, regions, handles, born, written, composed>>

\* a plausible slip: the mutable slice is one byte short of the region
deref_mut_Short(h, P) ==
    /\ pc = "idle"
    /\ h \in Live
    /\ handles[h].ty = "MmapMut"
    /\ Len(P) = handles[h].len
    /\ CanPoke(handles[h].ptr, handles[h].len)
    /\ regions' = PokeRegions(handles[h].ptr, SubSeq(P, 1, Len(P) - 1))
    /\ file' = PokeFile(handles[h].ptr, SubSeq(P, 1, Len(P) - 1))
    /\ written' = IF born[h].anon THEN [written EXCEPT ![h] = P] ELSE written
    /\ UNCHANGED <<fileFd, handles, pc, inv, born, composed>>

\* DerefMut::deref_mut of a MmapMut, and a store of P over the whole slice
\* (`(&mut *map)[..].copy_from_slice(P)`)
deref_mut(h, P) ==
    /\ pc = "idle"
    /\ h \in Live
    /\ handles[h].ty = "MmapMut"
    /\ Len(P) = handles[h].len
    /\ CanPoke(handles[h].ptr, handles[h].len)
    /\ regions' = PokeRegions(handles[h].ptr, P)
    /\ file' = PokeFile(handles[h].ptr, P)
    /\ written' = IF born[h].anon THEN [written EXCEPT ![h] = P] ELSE written
    /\ UNCHANGED <<fileFd, handles, pc, inv, born, composed>>

\* a handle goes out of scope: neither Mmap nor MmapMut has a Drop impl, so
\* nothing runs and the kernel is not called
drop(h) ==
    /\ pc = "idle"
    /\ h \in Live
    /\ handles' = [handles EXCEPT ![h].live = FALSE]
    /\ UNCHANGED <<file, fileFd, regions, pc, inv, born, written, composed>>

----------------------------------------------------------------------------
(* Anyone holding the file: growth and truncation, at any moment between   *)
(* the library's system calls and the caller's operations. The hand-over   *)
(* of a constructor's result touches nothing shared, so no step of the     *)
(* file's other users is placed inside it.                                 *)

file_grow(b) ==
    /\ pc # "returned"
    /\ Len(file) < MaxFileSize
    /\ file' = Append(file, b)
    /\ UNCHANGED <<fileFd, regions, handles, pc, inv, born, written, composed>>

file_truncate ==
    /\ pc # "returned"
    /\ Len(file) > 0
    /\ file' = SubSeq(file, 1, Len(file) - 1)
    /\ UNCHANGED <<fileFd, regions, handles, pc, inv, born, written, composed>>

----------------------------------------------------------------------------
(* The library with its caller and the file's other users *)

Patterns == UNION {[1..n -> Byte] : n \in 1..(IF MaxLen > MaxFileSize THEN MaxLen ELSE MaxFileSize)}

InitMem ==
    /\ file = <<>>
    /\ fileFd \in Fds
    /\ regions = <<>>
    /\ handles = <<>>
    /\ pc = "idle"
    /\ inv = NoInv
    /\ born = <<>>
    /\ written = <<>>

Init == InitMem /\ composed = UniqueFlag(MAP_SHARED)

Next ==
    \/ \E ty \in HandleTypes, size \in 1..MaxLen : new_anon(ty, size)
    \/ \E ty \in HandleTypes, size \in 1..MaxLen : new_anon_exec(ty, size)
    \/ \E ty \in HandleTypes : new_file(ty)
    \/ \E ty \in HandleTypes : new_file_exec(ty)
    \/ mmap_file
    \/ bind_result
    \/ \E h \in Live, P \in Patterns : deref_mut(h, P)
    \/ \E h \in Live : drop(h)
    \/ \E b \in Byte : file_grow(b)
    \/ file_truncate

Spec == Init /\ [][Next]_vars

----------------------------------------------------------------------------
(* The flag algebra on its own: values built from the named constants *)

\* composed | c or c | composed, for a named constant c, where an impl exists;
\* a value with several constants in it is built one constant at a time
Compose(c, left) ==
    LET l == IF left THEN c ELSE composed
        r == IF left THEN composed ELSE c
    IN  /\ BitOrOutput(l.ty, r.ty) # NoImpl
        /\ composed' = FlagBitOr(l, r)
        /\ UNCHANGED memVars

\* start again from a named constant
Restart(c) ==
    /\ composed' = c
    /\ UNCHANGED memVars

InitFlag == InitMem /\ composed \in NamedConsts

NextFlag ==
    \/ \E c \in NamedConsts, left \in BOOLEAN : Compose(c, left)
    \/ \E c \in NamedConsts : Restart(c)

SpecFlag == InitFlag /\ [][NextFlag]_vars

----------------------------------------------------------------------------
(* Properties *)

AnonEntries == {"new_anon", "new_anon_exec"}

FileEntries == {"new_file", "new_file_exec"}

\* C1: once a handle has gone out of scope its region is released: the
\* regions still mapped are exactly the regions of the live handles.
C1_ReleasedOnDrop == DOMAIN regions = {handles[h].ptr : h \in Live}

\* C2: a live anonymous handle of either type, built for length N > 0 and not
\* yet written, reads in full as N bytes, all 0.
C2_ZeroFill ==
    \A h \in Live :
        (born[h].anon /\ written[h] = NoWrite) =>
            /\ born[h].n > 0
            /\ Len(deref(h)) = born[h].n
            /\ \A i \in 1..born[h].n : deref(h)[i] = 0

C2_Witness ==
    \E h \in Live, g \in Live :
        /\ born[h].anon /\ handles[h].ty = "Mmap"
        /\ born[g].anon /\ handles[g].ty = "MmapMut" /\ written[g] = NoWrite

\* C3: after pattern P was stored through deref_mut of an anonymous MmapMut
\* built for length N, deref of the same handle reads exactly P, of length N.
C3_RoundTrip ==
    \A h \in Live :
        (born[h].anon /\ handles[h].ty = "MmapMut" /\ written[h] # NoWrite) =>
            /\ deref(h) = written[h]
            /\ Len(deref(h)) = born[h].n

C3_Witness ==
    \E h \in Live :
        /\ born[h].anon /\ handles[h].ty = "MmapMut"
        /\ written[h] # NoWrite
        /\ \E i \in 1..Len(written[h]) : written[h][i] # 0

\* C4: a construction ends either with the kernel's address (not MAP_FAILED)
\* and the requested length in one new handle, or with the kernel's error code
\* and no handle.
C4_NoPartialSuccess ==
    pc = "returned" =>
        /\ inv.outcome \in {"ok", "err"}
        /\ (inv.outcome = "ok") <=> (~inv.metaFailed /\ inv.ret # MAP_FAILED)
        /\ inv.outcome = "ok" =>
              /\ inv.ret \in DOMAIN regions
              /\ Cardinality(DOMAIN handles) = inv.handlesBefore + 1
              /\ inv.h \in Live
              /\ handles[inv.h].ptr = inv.ret
              /\ handles[inv.h].len = inv.req.len
              /\ regions[inv.ret].len = inv.req.len
        /\ inv.outcome = "err" =>
              /\ inv.err = inv.oserr
              /\ inv.err # 0
              /\ inv.h = 0
              /\ Cardinality(DOMAIN handles) = inv.handlesBefore

C4_Witness ==
    /\ pc = "returned"
    /\ inv.outcome = "err"
    /\ inv.ret = MAP_FAILED
    /\ inv.entry \in AnonEntries
    /\ Live # {}

\* C5 as claimed: the length of a file-backed handle is the file's size at the
\* moment the mapping is established, and length and address never change.
C5_LenIsSizeAtMapping ==
    /\ \A h \in Live :
          ~born[h].anon => (handles[h].len = born[h].n /\ handles[h].ptr = born[h].ret)
    /\ (pc = "returned" /\ inv.outcome = "ok" /\ inv.entry \in FileEntries) =>
          handles[inv.h].len = inv.sizeAtMap

\* C5 as amended: the length of a file-backed handle is the size the metadata
\* query read, before the mapping call; length and address keep the values
\* they were built with, whatever the file's size becomes.
C5_LenIsSizeAtQuery ==
    /\ \A h \in Live :
          ~born[h].anon => (handles[h].len = born[h].n /\ handles[h].ptr = born[h].ret)
    /\ (pc = "returned" /\ inv.outcome = "ok" /\ inv.entry \in FileEntries) =>
          (handles[inv.h].len = inv.sizeAtQuery /\ born[inv.h].n = inv.sizeAtQuery)

C5_Witness ==
    \E h \in Live :
        /\ ~born[h].anon
        /\ pc = "idle"
        /\ handles[h].len # Len(file)

\* C6: no handle has length 0; the anonymous entry points get a length > 0; a
\* file-backed construction whose metadata query read 0 bytes ends in an error.
C6_NoZeroLength ==
    /\ \A h \in DOMAIN handles : handles[h].len > 0
    /\ (pc = "returned" /\ inv.entry \in AnonEntries) => inv.size > 0
    /\ (pc = "returned" /\ inv.entry \in FileEntries /\ ~inv.metaFailed
          /\ inv.sizeAtQuery = 0) =>
          (inv.outcome = "err" /\ inv.err # 0 /\ inv.h = 0)

C6_Witness ==
    /\ pc = "returned"
    /\ inv.entry \in FileEntries
    /\ ~inv.metaFailed
    /\ inv.sizeAtQuery = 0
    /\ inv.outcome = "err"

\* C7: | has no impl for unique|unique, so a composed value holds exactly one
\* unique constant, and its sharing-mode bits are that constant whatever
\* combinable constants were OR-ed in; a combinable value holds none.
C7_OneUnique ==
    /\ BitOrOutput("UniqueFlag", "UniqueFlag") = NoImpl
    /\ BitOrOutput("Flag", "Flag") = "Flag"
    /\ BitOrOutput("Flag", "UniqueFlag") = "UniqueFlag"
    /\ BitOrOutput("UniqueFlag", "Flag") = "UniqueFlag"
    /\ composed.ty = "UniqueFlag" =>
          /\ Cardinality(composed.uniq) = 1
          /\ \A u \in composed.uniq : composed.bits % 16 = u
          /\ composed.bits % 16 \in {1, 2, 3}
    /\ composed.ty = "Flag" =>
          /\ composed.uniq = {}
          /\ composed.bits % 16 = 0

C7_Witness ==
    /\ composed.ty = "UniqueFlag"
    /\ composed.uniq = {MAP_PRIVATE}
    /\ composed.bits = MAP_PRIVATE + MAP_ANONYMOUS + MAP_HUGE_1GB + 67108864 + MAP_SYNC

\* C8: a store through one handle's mutable view leaves the bytes seen through
\* every other live handle as they were.
C8_NoAliasing ==
    [][\A g \in Live, P \in Patterns :
          deref_mut(g, P) => \A h \in Live \ {g} : deref(h)' = deref(h)]_vars

\* C9: every request has a null hint and offset 0; anonymous: flags shared |
\* anonymous (0x21) and fd -1; file-backed: flags shared (0x01) and the file's
\* descriptor; protection read (1) for Mmap, write (2) for MmapMut, with
\* execute (4) OR-ed in for the _exec entry points and nothing else.
C9_Request ==
    (pc = "returned" /\ inv.ncalls > 0) =>
        /\ inv.req.addr = 0
        /\ inv.req.off = 0
        /\ inv.entry \in AnonEntries =>
              (inv.req.flags = 33 /\ inv.req.fd = -1 /\ inv.req.len = inv.size)
        /\ inv.entry \in FileEntries =>
              (inv.req.flags = 1 /\ inv.req.fd = fileFd
                 /\ inv.req.len = inv.sizeAtQuery)
        /\ inv.req.prot =
              (IF inv.ty = "Mmap" THEN 1 ELSE 2)
                + (IF inv.entry \in {"new_anon_exec", "new_file_exec"} THEN 4 ELSE 0)

C9_Witness ==
    /\ pc = "returned"
    /\ inv.ncalls > 0
    /\ inv.entry = "new_file_exec"
    /\ inv.ty = "MmapMut"
    /\ inv.outcome = "ok"

\* C10 as claimed: every construction, ending in a handle or in an error, made
\* exactly one mmap call.
C10_ExactlyOneCall == pc = "returned" => inv.ncalls = 1

\* C10 as amended: a construction whose metadata query failed made no mmap
\* call; every other construction made exactly one, also when it failed.
C10_OneCallUnlessQueryFails ==
    pc = "returned" =>
        /\ inv.ncalls = (IF inv.metaFailed THEN 0 ELSE 1)
        /\ inv.metaFailed => (inv.entry \in FileEntries /\ inv.outcome = "err")

C10_Witness ==
    /\ pc = "returned"
    /\ inv.entry \in FileEntries
    /\ inv.outcome = "err"
    /\ ~inv.metaFailed
    /\ inv.sizeAtQuery > 0
    /\ inv.ncalls = 1

====
